---- MODULE Spec2Model ----
(***************************************************************************)
(* ReflectionAnalyzer of XShaderCompiler: the visitor that walks a        *)
(* decorated program tree and fills a caller-supplied ReflectionData.     *)
(*                                                                         *)
(* The traversal is modelled visit by visit: Reflect copies its           *)
(* parameters and enters VisitProgram, one action per visited global      *)
(* statement follows (first globalStmnts, then disabledAST), and the      *)
(* entry-point part of VisitProgram returns.                              *)
(*                                                                         *)
(* Reals are stored as a count of halves (0.5 is 1, 1.0 is 2), so that    *)
(* the int/real conversions of Variant are not the identity.              *)
(***************************************************************************)
EXTENDS Integers, Sequences, FiniteSets, TLC

VARIABLES
    program,          \* the program tree handed to Reflect (never modified)
    shaderTarget_,    \* ReflectionAnalyzer::shaderTarget_
    enableWarnings_,  \* ReflectionAnalyzer::enableWarnings_
    data,             \* the caller's Reflection::ReflectionData (*data_)
    log,              \* warnings that reached the report handler's sink
    pc,               \* "idle" | "globalStmnts" | "disabledAST" | "entryPoint" | "terminated"
    cursor,           \* index of the next statement of the list being visited
    runs,             \* number of Reflect calls made on this report object
    prev              \* history: the report, the sink and the analyzer's target
                      \* as they were when the last Reflect was called

vars == <<program, shaderTarget_, enableWarnings_, data, log, pc, cursor, runs, prev>>

(* ------------------------------ bounds -------------------------------- *)

\* longest list of global statements of a mixed program
MaxStmnts == 2
\* Reflect calls the caller makes with one report object
MaxRuns == 2
\* register slots are 0..MaxSlot
MaxSlot == 1
\* most parameters of an entry point
MaxParams == 2

(* ------------------------------ helpers ------------------------------- *)

SeqsUpTo(S, n) == UNION { [1..k -> S] : k \in 0..n }

Null == [type |-> "null"]

(* ---------------------------- expressions ----------------------------- *)

Lit(dt, text) == [type |-> "LiteralExpr", dataType |-> dt, value |-> text]
Obj(ident) == [type |-> "ObjectExpr", ident |-> ident]
Unary(op, e) == [type |-> "UnaryExpr", op |-> op, expr |-> e]
Binary(op, l, r) == [type |-> "BinaryExpr", op |-> op, lhsExpr |-> l, rhsExpr |-> r]
Call(td, args) == [type |-> "CallExpr", typeDenoter |-> td, arguments |-> args]
Cast(e) == [type |-> "CastExpr", expr |-> e]
InitList(es) == [type |-> "InitializerExpr", exprs |-> es]

\* FromString<float>: the text read as a real, in halves
FromStringFloat(text) ==
    CASE text = "0" -> 0
      [] text = "1" -> 2
      [] text = "8" -> 16
      [] text = "0.5" -> 1
      [] OTHER -> 0

\* FromString<unsigned int>: the leading digits of the text
FromStringUInt(text) ==
    CASE text = "0" -> 0
      [] text = "1" -> 1
      [] text = "8" -> 8
      [] text = "0.5" -> 0
      [] OTHER -> 0

(* ------------------------------ Variant ------------------------------- *)

VariantNone == [type |-> "Undefined", value |-> 0]
VariantInt(n) == [type |-> "Int", value |-> n]
VariantReal(h) == [type |-> "Real", value |-> h]

\* C++ integer division: the quotient truncated toward zero
TruncDiv(a, b) ==
    LET q == (IF a >= 0 THEN a ELSE -a) \div (IF b >= 0 THEN b ELSE -b) IN
    IF (a >= 0) = (b >= 0) THEN q ELSE -q

\* truncation toward zero of a count of halves
TruncHalves(h) == TruncDiv(h, 2)

ToInt(v) ==
    CASE v.type = "Int" -> v.value
      [] v.type = "Real" -> TruncHalves(v.value)
      [] OTHER -> 0

ToReal(v) ==
    CASE v.type = "Int" -> 2 * v.value
      [] v.type = "Real" -> v.value
      [] OTHER -> 0

(* ------------------------ ConstExprEvaluator -------------------------- *)

\* An evaluation either yields a Variant or leaves by an exception:
\* thrown is "none", "std::exception" or "ObjectExpr*".
Ok(v) == [thrown |-> "none", value |-> v]
Throw(what) == [thrown |-> what, value |-> VariantNone]

RECURSIVE EvaluateExpr(_)
EvaluateExpr(expr) ==
    CASE expr.type = "LiteralExpr" ->
            IF expr.dataType = "Int"
            THEN Ok(VariantInt(FromStringUInt(expr.value)))
            ELSE Ok(VariantReal(FromStringFloat(expr.value)))
      [] expr.type = "ObjectExpr" ->
            \* the callback given by the reflection analyzer: throw expr
            Throw("ObjectExpr*")
      [] expr.type = "UnaryExpr" ->
            LET a == EvaluateExpr(expr.expr) IN
            IF a.thrown # "none" THEN a
            ELSE Ok([a.value EXCEPT !.value = -a.value.value])
      [] expr.type = "BinaryExpr" ->
            LET a == EvaluateExpr(expr.lhsExpr) IN
            IF a.thrown # "none" THEN a
            ELSE LET b == EvaluateExpr(expr.rhsExpr) IN
                 IF b.thrown # "none" THEN b
                 ELSE IF expr.op = "/"
                      THEN IF ToReal(b.value) = 0
                           THEN Throw("std::exception")
                           ELSE IF a.value.type = "Int" /\ b.value.type = "Int"
                                THEN Ok(VariantInt(TruncDiv(a.value.value, b.value.value)))
                                ELSE Ok(VariantReal(TruncDiv(2 * ToReal(a.value), ToReal(b.value))))
                      ELSE IF a.value.type = "Int" /\ b.value.type = "Int"
                           THEN Ok(VariantInt(a.value.value + b.value.value))
                           ELSE Ok(VariantReal(ToReal(a.value) + ToReal(b.value)))
      [] OTHER -> Throw("std::exception")

\* EvaluateConstExpr without its catch (const ObjectExpr*) clause
EvaluateConstExprNoCatchObject(expr) ==
    LET r == EvaluateExpr(expr) IN
    IF r.thrown = "std::exception" THEN Ok(VariantNone) ELSE r

\* ReflectionAnalyzer::EvaluateConstExpr: both catch clauses return Variant()
EvaluateConstExpr(expr) ==
    LET r == EvaluateExpr(expr) IN
    IF r.thrown = "std::exception" THEN Ok(VariantNone)
    ELSE IF r.thrown = "ObjectExpr*" THEN Ok(VariantNone)
    ELSE r

EvaluateConstExprInt(expr) ==
    LET r == EvaluateConstExpr(expr) IN
    [thrown |-> r.thrown, value |-> ToInt(r.value)]

EvaluateConstExprFloat(expr) ==
    LET r == EvaluateConstExpr(expr) IN
    [thrown |-> r.thrown, value |-> ToReal(r.value)]

(* ------------------------- Reflection structs ------------------------- *)

\* Reflection::SamplerState as default-constructed
DefaultSamplerState ==
    [ filter         |-> "MinMagMipLinear",
      addressU       |-> "Wrap",
      addressV       |-> "Wrap",
      addressW       |-> "Wrap",
      mipLODBias     |-> 0,
      maxAnisotropy  |-> 1,
      comparisonFunc |-> "Never",
      borderColor    |-> <<0, 0, 0, 0>>,
      minLOD         |-> -1000,
      maxLOD         |-> 1000 ]

\* Reflection::ReflectionData as default-constructed
\* std::map<std::string, SamplerState> as a function on its keys;
\* operator[] assignment inserts the key or replaces its value
EmptyMap == [k \in {} |-> DefaultSamplerState]
MapAssign(m, k, v) == [x \in (DOMAIN m) \cup {k} |-> IF x = k THEN v ELSE m[x]]

DefaultReflectionData ==
    [ inputAttributes  |-> <<>>,
      outputAttributes |-> <<>>,
      constantBuffers  |-> <<>>,
      textures         |-> <<>>,
      storageBuffers   |-> <<>>,
      samplerStates    |-> EmptyMap,
      numThreads       |-> [x |-> 0, y |-> 0, z |-> 0] ]

(* ---------------------- string -> enum conversions -------------------- *)

Found(v) == [thrown |-> "none", value |-> v]
InvalidArgument == [thrown |-> "std::invalid_argument", value |-> ""]

StringToFilter(s) ==
    CASE s = "MIN_MAG_MIP_POINT" -> Found("MinMagMipPoint")
      [] s = "MIN_MAG_MIP_LINEAR" -> Found("MinMagMipLinear")
      [] s = "ANISOTROPIC" -> Found("Anisotropic")
      [] OTHER -> InvalidArgument

StringToTexAddressMode(s) ==
    CASE s = "WRAP" -> Found("Wrap")
      [] s = "MIRROR" -> Found("Mirror")
      [] s = "CLAMP" -> Found("Clamp")
      [] s = "BORDER" -> Found("Border")
      [] OTHER -> InvalidArgument

StringToCompareFunc(s) ==
    CASE s = "COMPARISON_NEVER" -> Found("Never")
      [] s = "COMPARISON_LESS" -> Found("Less")
      [] s = "COMPARISON_ALWAYS" -> Found("Always")
      [] OTHER -> InvalidArgument

(* ----------------------------- warnings ------------------------------- *)

\* The member functions below take the analyzer as self:
\* [shaderTarget_, enableWarnings_].

\* Warning without the test of enableWarnings_
WarningAlways(self, lg, msg, what) == Append(lg, [msg |-> msg, what |-> what])

\* ReflectionAnalyzer::Warning: the sink after the call
Warning(self, lg, msg, what) ==
    IF self.enableWarnings_ THEN Append(lg, [msg |-> msg, what |-> what]) ELSE lg

(* ------------------------- sampler reflection ------------------------- *)

\* Each helper returns the referenced field and the sink after the call.

\* ReflectSamplerValueFilter that assigns the default filter on failure
ReflectSamplerValueFilterReset(self, value, filter, lg) ==
    LET r == StringToFilter(value) IN
    IF r.thrown = "none"
    THEN [field |-> r.value, log |-> lg]
    ELSE [field |-> DefaultSamplerState.filter, log |-> Warning(self, lg, "invalid_argument", value)]

ReflectSamplerValueFilter(self, value, filter, lg) ==
    LET r == StringToFilter(value) IN
    IF r.thrown = "none"
    THEN [field |-> r.value, log |-> lg]
    ELSE [field |-> filter, log |-> Warning(self, lg, "invalid_argument", value)]

ReflectSamplerValueTextureAddressMode(self, value, addressMode, lg) ==
    LET r == StringToTexAddressMode(value) IN
    IF r.thrown = "none"
    THEN [field |-> r.value, log |-> lg]
    ELSE [field |-> addressMode, log |-> Warning(self, lg, "invalid_argument", value)]

ReflectSamplerValueComparisonFunc(self, value, comparisonFunc, lg) ==
    LET r == StringToCompareFunc(value) IN
    IF r.thrown = "none"
    THEN [field |-> r.value, log |-> lg]
    ELSE [field |-> comparisonFunc, log |-> Warning(self, lg, "invalid_argument", value)]

\* The loops "for i in 0..3: borderColor[i] = EvaluateConstExprFloat(*e[i])":
\* the four components, or the exception that left the loop.
RECURSIVE EvaluateFloats(_)
EvaluateFloats(exprs) ==
    IF exprs = <<>> THEN [thrown |-> "none", values |-> <<>>]
    ELSE LET h == EvaluateConstExprFloat(Head(exprs)) IN
         IF h.thrown # "none" THEN [thrown |-> h.thrown, values |-> <<>>]
         ELSE LET t == EvaluateFloats(Tail(exprs)) IN
              [thrown |-> t.thrown, values |-> <<h.value>> \o t.values]

\* The BorderColor branch; r is [samplerState, log, thrown].
ReflectBorderColor(self, ast, r) ==
    LET v == ast.value IN
    CASE v.type = "CallExpr" ->
            IF v.typeDenoter = "Vector" /\ Len(v.arguments) = 4
            THEN LET c == EvaluateFloats(v.arguments) IN
                 IF c.thrown # "none" THEN [r EXCEPT !.thrown = c.thrown]
                 ELSE [r EXCEPT !.samplerState.borderColor = c.values]
            ELSE [r EXCEPT !.log = Warning(self, r.log,
                      "FailedToInitializeSamplerValue(InvalidTypeOrArgCount)", "BorderColor")]
      [] v.type = "CastExpr" ->
            LET subValueSrc == EvaluateConstExprFloat(v.expr) IN
            IF subValueSrc.thrown # "none" THEN [r EXCEPT !.thrown = subValueSrc.thrown]
            ELSE [r EXCEPT !.samplerState.borderColor =
                      [i \in 1..4 |-> subValueSrc.value]]
      [] v.type = "InitializerExpr" ->
            IF Len(v.exprs) = 4
            THEN LET c == EvaluateFloats(v.exprs) IN
                 IF c.thrown # "none" THEN [r EXCEPT !.thrown = c.thrown]
                 ELSE [r EXCEPT !.samplerState.borderColor = c.values]
            ELSE [r EXCEPT !.log = Warning(self, r.log,
                      "FailedToInitializeSamplerValue(InvalidArgCount)", "BorderColor")]
      [] OTHER -> r

\* ReflectionAnalyzer::ReflectSamplerValue; r is [samplerState, log, thrown].
ReflectSamplerValue(self, ast, r) ==
    LET name == ast.name
        st == r.samplerState
    IN
    IF ast.value.type = "LiteralExpr" THEN
        LET value == ast.value.value IN
        CASE name = "MipLODBias" -> [r EXCEPT !.samplerState.mipLODBias = FromStringFloat(value)]
          [] name = "MaxAnisotropy" -> [r EXCEPT !.samplerState.maxAnisotropy = FromStringUInt(value)]
          [] name = "MinLOD" -> [r EXCEPT !.samplerState.minLOD = FromStringFloat(value)]
          [] name = "MaxLOD" -> [r EXCEPT !.samplerState.maxLOD = FromStringFloat(value)]
          [] OTHER -> r
    ELSE IF ast.value.type = "ObjectExpr" THEN
        LET value == ast.value.ident IN
        CASE name = "Filter" ->
                LET f == ReflectSamplerValueFilter(self, value, st.filter, r.log) IN
                [r EXCEPT !.samplerState.filter = f.field, !.log = f.log]
          [] name = "AddressU" ->
                LET f == ReflectSamplerValueTextureAddressMode(self, value, st.addressU, r.log) IN
                [r EXCEPT !.samplerState.addressU = f.field, !.log = f.log]
          [] name = "AddressV" ->
                LET f == ReflectSamplerValueTextureAddressMode(self, value, st.addressV, r.log) IN
                [r EXCEPT !.samplerState.addressV = f.field, !.log = f.log]
          [] name = "AddressW" ->
                LET f == ReflectSamplerValueTextureAddressMode(self, value, st.addressW, r.log) IN
                [r EXCEPT !.samplerState.addressW = f.field, !.log = f.log]
          [] name = "ComparisonFunc" ->
                LET f == ReflectSamplerValueComparisonFunc(self, value, st.comparisonFunc, r.log) IN
                [r EXCEPT !.samplerState.comparisonFunc = f.field, !.log = f.log]
          [] OTHER -> r
    ELSE IF name = "BorderColor" THEN ReflectBorderColor(self, ast, r)
    ELSE r

\* The loop of VisitSamplerDecl over ast->samplerValues; an exception that
\* leaves ReflectSamplerValue leaves the loop.
RECURSIVE ReflectSamplerValues(_, _, _)
ReflectSamplerValues(self, values, r) ==
    IF values = <<>> \/ r.thrown # "none" THEN r
    ELSE ReflectSamplerValues(self, Tail(values), ReflectSamplerValue(self, Head(values), r))

\* ReflectionAnalyzer::VisitSamplerDecl; d is [data, log, thrown].
VisitSamplerDecl(self, ast, d) ==
    LET r == ReflectSamplerValues(self, ast.samplerValues,
                 [samplerState |-> DefaultSamplerState, log |-> d.log, thrown |-> "none"])
    IN
    IF r.thrown # "none"
    THEN [d EXCEPT !.log = r.log, !.thrown = r.thrown]
    ELSE [d EXCEPT !.log = r.log,
                   !.data.samplerStates = MapAssign(@, ast.ident, r.samplerState)]

(* ------------------------- binding reflection ------------------------- *)

\* Register::GetForTarget: the first register of the list that is given for
\* the target, or Null
RECURSIVE GetForTarget(_, _)
GetForTarget(slotRegisters, shaderTarget) ==
    IF slotRegisters = <<>> THEN Null
    ELSE IF Head(slotRegisters).shaderTarget = shaderTarget THEN Head(slotRegisters)
    ELSE GetForTarget(Tail(slotRegisters), shaderTarget)

\* GetBindingPoint that takes the first register whatever its target
GetBindingPointFirst(self, slotRegisters) ==
    IF slotRegisters # <<>> THEN Head(slotRegisters).slot ELSE -1

\* ReflectionAnalyzer::GetBindingPoint
GetBindingPoint(self, slotRegisters) ==
    LET slotRegister == GetForTarget(slotRegisters, self.shaderTarget_) IN
    IF slotRegister # Null THEN slotRegister.slot ELSE -1

IsTextureBufferType(t) ==
    t \in {"RWTexture2D", "Texture2D", "Texture2DArray", "TextureCube"}

\* ReflectionAnalyzer::VisitUniformBufferDecl; d is [data, log, thrown].
VisitUniformBufferDecl(self, ast, d) ==
    IF ast.isReachable
    THEN [d EXCEPT !.data.constantBuffers =
             Append(@, [ident |-> ast.ident, location |-> GetBindingPoint(self, ast.slotRegisters)])]
    ELSE d

\* The body of the loop of VisitBufferDeclStmnt for one bufferDecl
ReflectBufferDecl(self, ast, bufferDecl, d) ==
    IF bufferDecl.isReachable
    THEN LET bindingSlot == [ident    |-> bufferDecl.ident,
                             location |-> GetBindingPoint(self, bufferDecl.slotRegisters)]
         IN
         IF IsTextureBufferType(ast.bufferType)
         THEN [d EXCEPT !.data.textures = Append(@, bindingSlot)]
         ELSE [d EXCEPT !.data.storageBuffers = Append(@, bindingSlot)]
    ELSE d

RECURSIVE ReflectBufferDecls(_, _, _, _)
ReflectBufferDecls(self, ast, bufferDecls, d) ==
    IF bufferDecls = <<>> THEN d
    ELSE ReflectBufferDecls(self, ast, Tail(bufferDecls), ReflectBufferDecl(self, ast, Head(bufferDecls), d))

\* VisitBufferDeclStmnt with the two branches of the classification swapped
VisitBufferDeclStmntSwapped(self, ast, d) ==
    IF ast.isReachable
    THEN ReflectBufferDecls(self, [ast EXCEPT !.bufferType =
             IF IsTextureBufferType(@) THEN "Buffer" ELSE "Texture2D"], ast.bufferDecls, d)
    ELSE d

\* ReflectionAnalyzer::VisitBufferDeclStmnt; d is [data, log, thrown].
VisitBufferDeclStmnt(self, ast, d) ==
    IF ast.isReachable
    THEN ReflectBufferDecls(self, ast, ast.bufferDecls, d)
    ELSE d

(* ------------------------ attribute reflection ------------------------ *)

\* ReflectAttributesNumThreads without the test of the shader target
ReflectAttributesNumThreadsAnyTarget(self, ast, d) ==
    IF Len(ast.arguments) = 3
    THEN LET x == EvaluateConstExprInt(ast.arguments[1])
             y == EvaluateConstExprInt(ast.arguments[2])
             z == EvaluateConstExprInt(ast.arguments[3])
         IN [d EXCEPT !.data.numThreads = [x |-> x.value, y |-> y.value, z |-> z.value]]
    ELSE d

\* ReflectionAnalyzer::ReflectAttributesNumThreads; d is [data, log, thrown].
\* x, y and z are assigned in turn, so an exception leaves the earlier ones set.
\* The folded values are far inside the range of int, so static_cast<int>
\* keeps them.
ReflectAttributesNumThreads(self, ast, d) ==
    IF self.shaderTarget_ = "ComputeShader" /\ Len(ast.arguments) = 3
    THEN LET x == EvaluateConstExprInt(ast.arguments[1])
             y == EvaluateConstExprInt(ast.arguments[2])
             z == EvaluateConstExprInt(ast.arguments[3])
         IN
         IF x.thrown # "none" THEN [d EXCEPT !.thrown = x.thrown]
         ELSE IF y.thrown # "none"
              THEN [d EXCEPT !.data.numThreads.x = x.value, !.thrown = y.thrown]
         ELSE IF z.thrown # "none"
              THEN [d EXCEPT !.data.numThreads.x = x.value,
                             !.data.numThreads.y = y.value, !.thrown = z.thrown]
         ELSE [d EXCEPT !.data.numThreads = [x |-> x.value, y |-> y.value, z |-> z.value]]
    ELSE d

\* ReflectionAnalyzer::ReflectAttributes
RECURSIVE ReflectAttributes(_, _, _)
ReflectAttributes(self, attribs, d) ==
    IF attribs = <<>> \/ d.thrown # "none" THEN d
    ELSE ReflectAttributes(self, Tail(attribs),
             IF Head(attribs).attributeType = "NumThreads"
             THEN ReflectAttributesNumThreads(self, Head(attribs), d)
             ELSE d)

\* ReflectionAnalyzer::VisitFunctionDecl (the default visit of the function's
\* parameters and body reaches no declaration this analyzer reflects)
VisitFunctionDecl(self, ast, d) ==
    IF ast.isEntryPoint THEN ReflectAttributes(self, ast.attribs, d) ELSE d

(* -------------------- entry point of VisitProgram --------------------- *)

\* { varDecl->ident, varDecl->semantic.Index() } for each varDecl of refs
IdentAttributes(refs) ==
    [i \in 1..Len(refs) |-> [ident |-> refs[i].ident, index |-> refs[i].semantic.index]]

\* { varDecl->semantic.ToString(), varDecl->semantic.Index() }
SemanticAttributes(refs) ==
    [i \in 1..Len(refs) |-> [ident |-> refs[i].semantic.name, index |-> refs[i].semantic.index]]

\* the entry-point part with the system-value loops before the ordinary ones
ReflectEntryPointSVFirst(entryPoint, rd) ==
    [rd EXCEPT
        !.inputAttributes = @ \o SemanticAttributes(entryPoint.inputSemantics.varDeclRefsSV)
                              \o IdentAttributes(entryPoint.inputSemantics.varDeclRefs),
        !.outputAttributes = @ \o SemanticAttributes(entryPoint.outputSemantics.varDeclRefsSV)
                               \o IdentAttributes(entryPoint.outputSemantics.varDeclRefs)]

\* The part of VisitProgram after the two Visit calls
ReflectEntryPoint(entryPoint, rd) ==
    [rd EXCEPT
        !.inputAttributes = @ \o IdentAttributes(entryPoint.inputSemantics.varDeclRefs)
                              \o SemanticAttributes(entryPoint.inputSemantics.varDeclRefsSV),
        !.outputAttributes = @ \o IdentAttributes(entryPoint.outputSemantics.varDeclRefs)
                               \o SemanticAttributes(entryPoint.outputSemantics.varDeclRefsSV)
                               \o (IF entryPoint.semantic.isSystemValue
                                   THEN <<[ident |-> entryPoint.semantic.name,
                                           index |-> entryPoint.semantic.index]>>
                                   ELSE <<>>)]

(* --------------------------- default visitor -------------------------- *)

\* Visitor::VisitSamplerDeclStmnt: visits the statement's sampler
\* declarations in order
RECURSIVE VisitSamplerDecls(_, _, _)
VisitSamplerDecls(self, samplerDecls, d) ==
    IF samplerDecls = <<>> \/ d.thrown # "none" THEN d
    ELSE VisitSamplerDecls(self, Tail(samplerDecls), VisitSamplerDecl(self, Head(samplerDecls), d))

VisitSamplerDeclStmnt(self, ast, d) == VisitSamplerDecls(self, ast.samplerDecls, d)

\* Visitor::Visit(ast): the dispatch on the node's type
VisitStmnt(self, ast, d) ==
    CASE ast.type = "UniformBufferDecl" -> VisitUniformBufferDecl(self, ast, d)
      [] ast.type = "BufferDeclStmnt" -> VisitBufferDeclStmnt(self, ast, d)
      [] ast.type = "SamplerDeclStmnt" -> VisitSamplerDeclStmnt(self, ast, d)
      [] ast.type = "FunctionDecl" -> VisitFunctionDecl(self, ast, d)
      [] OTHER -> d

(* --------------------------- program trees ---------------------------- *)

ShaderTargets == {"VertexShader", "ComputeShader"}

Registers == [shaderTarget : ShaderTargets, slot : 0..MaxSlot]
Reg(t, n) == [shaderTarget |-> t, slot |-> n]

UniformBufferDecl(ident, reachable, regs) ==
    [type |-> "UniformBufferDecl", ident |-> ident, isReachable |-> reachable,
     slotRegisters |-> regs]

BufferDecl(ident, reachable, regs) ==
    [ident |-> ident, isReachable |-> reachable, slotRegisters |-> regs]

BufferDeclStmnt(reachable, bufferType, decls) ==
    [type |-> "BufferDeclStmnt", isReachable |-> reachable, bufferType |-> bufferType,
     bufferDecls |-> decls]

SamplerValue(name, value) == [name |-> name, value |-> value]

SamplerDecl(ident, reachable, values) ==
    [ident |-> ident, isReachable |-> reachable, samplerValues |-> values]

SamplerDeclStmnt(decls) == [type |-> "SamplerDeclStmnt", samplerDecls |-> decls]

Attribute(attributeType, arguments) ==
    [attributeType |-> attributeType, arguments |-> arguments]

Semantic(name, index, sv) == [name |-> name, index |-> index, isSystemValue |-> sv]
NoSemantic == Semantic("", 0, FALSE)

\* a parameter of the entry point, in the order of the source
Param(ident, semantic, isOutput) ==
    [ident |-> ident, semantic |-> semantic, isOutput |-> isOutput]

\* FunctionDecl::ParameterSemantics as the context analyzer fills it: the
\* ordinary and the system-value variables of one direction, each list in
\* the order of the declarations
ParameterSemantics(parameters, isOutput) ==
    LET Ordinary(p) == p.isOutput = isOutput /\ ~p.semantic.isSystemValue
        SystemValue(p) == p.isOutput = isOutput /\ p.semantic.isSystemValue
    IN [varDeclRefs |-> SelectSeq(parameters, Ordinary),
        varDeclRefsSV |-> SelectSeq(parameters, SystemValue)]

FunctionDecl(isEntryPoint, attribs, parameters, semantic) ==
    [type |-> "FunctionDecl", isEntryPoint |-> isEntryPoint, attribs |-> attribs,
     parameters |-> parameters,
     inputSemantics |-> ParameterSemantics(parameters, FALSE),
     outputSemantics |-> ParameterSemantics(parameters, TRUE),
     semantic |-> semantic]

\* constant and non-constant expressions
L0 == Lit("Int", "0")
L1 == Lit("Int", "1")
L8 == Lit("Int", "8")
LHalf == Lit("Float", "0.5")
RuntimeVar == Obj("x")
DivByZero == Binary("/", L1, L0)
Minus1 == Unary("-", L1)
OnePlusHalf == Binary("+", L1, LHalf)

RegisterLists == SeqsUpTo(Registers, 2)

UniformBufferDecls ==
    { UniformBufferDecl("cb0", reachable, regs) :
        reachable \in BOOLEAN, regs \in RegisterLists }

MemberRegisterLists ==
    { <<>>, <<Reg("VertexShader", MaxSlot)>>,
      <<Reg("ComputeShader", 0), Reg("VertexShader", 0)>> }

BufferTypes == {"Buffer", "RWStructuredBuffer", "Texture2D", "RWTexture2D"}

BufferDeclLists ==
    { <<>> }
    \cup { <<BufferDecl("t0", r, regs)>> : r \in BOOLEAN, regs \in MemberRegisterLists }
    \cup { <<BufferDecl("t0", r0, regs0), BufferDecl("t1", r1, regs1)>> :
             r0 \in BOOLEAN, r1 \in BOOLEAN,
             regs0 \in MemberRegisterLists, regs1 \in MemberRegisterLists }

BufferDeclStmnts ==
    { BufferDeclStmnt(reachable, t, decls) :
        reachable \in BOOLEAN, t \in BufferTypes, decls \in BufferDeclLists }

GoodBorderColor == SamplerValue("BorderColor", Call("Vector", <<L0, L0, LHalf, L1>>))

EnumSamplerValues ==
    { SamplerValue("Filter", Obj("MIN_MAG_MIP_POINT")),
      SamplerValue("Filter", Obj("BOGUS")),
      SamplerValue("AddressU", Obj("MIRROR")),
      SamplerValue("AddressU", Obj("BOGUS")),
      SamplerValue("AddressV", Obj("CLAMP")),
      SamplerValue("AddressV", Obj("BOGUS")),
      SamplerValue("AddressW", Obj("BORDER")),
      SamplerValue("AddressW", Obj("MIN_MAG_MIP_POINT")),
      SamplerValue("ComparisonFunc", Obj("COMPARISON_LESS")),
      SamplerValue("ComparisonFunc", Obj("LESS")) }

NumericSamplerValues ==
    { SamplerValue("MipLODBias", LHalf),
      SamplerValue("MaxAnisotropy", L8),
      SamplerValue("MinLOD", L1),
      SamplerValue("MaxLOD", L8),
      SamplerValue("MipLODBias", RuntimeVar),
      SamplerValue("Filter", L1) }

BorderColorSamplerValues ==
    { GoodBorderColor,
      SamplerValue("BorderColor", Call("Vector", <<RuntimeVar, DivByZero, Minus1, OnePlusHalf>>)),
      SamplerValue("BorderColor", Call("Vector", <<L1, L1, L1>>)),
      SamplerValue("BorderColor", Call("Scalar", <<L1, L1, L1, L1>>)),
      SamplerValue("BorderColor", Call("Null", <<L1, L1, L1, L1>>)),
      SamplerValue("BorderColor", Cast(LHalf)),
      SamplerValue("BorderColor", Cast(RuntimeVar)),
      SamplerValue("BorderColor", InitList(<<L1, LHalf, L0, L8>>)),
      SamplerValue("BorderColor", InitList(<<L1, L1, L1>>)),
      SamplerValue("BorderColor", InitList(<<L1, L1, L1, L1, L1>>)),
      SamplerValue("BorderColor", L1),
      SamplerValue("BorderColor", RuntimeVar),
      SamplerValue("BorderColor", Minus1),
      SamplerValue("BorderColor", OnePlusHalf),
      SamplerValue("Other", Call("Vector", <<L1, L1, L1>>)) }

SamplerValues == EnumSamplerValues \cup NumericSamplerValues \cup BorderColorSamplerValues

\* the values that set a field successfully, as the first of two assignments
PriorSamplerValues ==
    { v \in EnumSamplerValues : v.value.ident \notin {"BOGUS", "LESS"} /\ v.name # "AddressW" }
    \cup { SamplerValue("AddressW", Obj("BORDER")), GoodBorderColor,
           SamplerValue("Filter", Obj("BOGUS")) }

SamplerValueLists ==
    { <<>> }
    \cup { <<v>> : v \in SamplerValues }
    \cup { <<u, v>> : u \in PriorSamplerValues, v \in SamplerValues }

SamplerDeclStmnts ==
    { SamplerDeclStmnt(<<SamplerDecl("s0", reachable, values)>>) :
        reachable \in BOOLEAN, values \in SamplerValueLists }

Attributes ==
    { Attribute("NumThreads", <<L8, L8, L1>>),
      Attribute("NumThreads", <<L1, RuntimeVar, DivByZero>>),
      Attribute("NumThreads", <<OnePlusHalf, Minus1, LHalf>>),
      Attribute("NumThreads", <<L8, L8>>),
      Attribute("NumThreads", <<L8, L8, L1, L1>>),
      Attribute("Unroll", <<L8, L8, L8>>) }

AttributeLists == SeqsUpTo(Attributes, 2)

Params ==
    { Param("a", Semantic("TEXCOORD", 0, FALSE), FALSE),
      Param("b", Semantic("SV_VertexID", 0, TRUE), FALSE),
      Param("c", Semantic("SV_Position", 0, TRUE), TRUE),
      Param("d", Semantic("COLOR", 1, FALSE), TRUE) }

ParamLists ==
    { ps \in SeqsUpTo(Params, MaxParams) :
        \A i, j \in 1..Len(ps) : i # j => ps[i] # ps[j] }

ReturnSemantics == { NoSemantic, Semantic("COLOR", 0, FALSE), Semantic("SV_Target", 1, TRUE) }

FunctionDecls ==
    { FunctionDecl(e, attribs, <<>>, NoSemantic) : e \in BOOLEAN, attribs \in AttributeLists }
    \cup { FunctionDecl(TRUE, <<>>, ps, sem) : ps \in ParamLists, sem \in ReturnSemantics }

\* the statements of the programs of one statement
Stmnts == UniformBufferDecls \cup BufferDeclStmnts \cup SamplerDeclStmnts \cup FunctionDecls

\* the statements of the programs of several statements
MixedStmnts ==
    { UniformBufferDecl("cb0", TRUE, <<Reg("VertexShader", 0), Reg("ComputeShader", MaxSlot)>>),
      UniformBufferDecl("cb1", FALSE, <<Reg("VertexShader", MaxSlot)>>),
      BufferDeclStmnt(TRUE, "Texture2D",
          <<BufferDecl("t0", TRUE, <<Reg("ComputeShader", 0)>>),
            BufferDecl("t1", FALSE, <<>>),
            BufferDecl("t2", TRUE, <<>>)>>),
      BufferDeclStmnt(TRUE, "RWStructuredBuffer",
          <<BufferDecl("u0", TRUE, <<Reg("VertexShader", MaxSlot)>>)>>),
      SamplerDeclStmnt(
          <<SamplerDecl("s0", TRUE, <<SamplerValue("Filter", Obj("ANISOTROPIC"))>>),
            SamplerDecl("s1", TRUE, <<SamplerValue("AddressU", Obj("BOGUS"))>>),
            SamplerDecl("s0", TRUE, <<SamplerValue("BorderColor", InitList(<<L1, L1>>))>>)>>),
      FunctionDecl(TRUE, <<Attribute("NumThreads", <<L8, L1, L1>>)>>,
          <<Param("b", Semantic("SV_VertexID", 0, TRUE), FALSE),
            Param("a", Semantic("TEXCOORD", 0, FALSE), FALSE)>>,
          Semantic("SV_Target", 0, TRUE)),
      FunctionDecl(FALSE, <<Attribute("NumThreads", <<L1, L1, L1>>)>>, <<>>, NoSemantic) }

\* the disabled code: statements the earlier passes found unreferenced
DisabledLists ==
    { <<>>,
      <<UniformBufferDecl("dead_cb", FALSE, <<Reg("VertexShader", 0)>>)>>,
      <<BufferDeclStmnt(FALSE, "Texture2D", <<BufferDecl("dead_t", FALSE, <<>>)>>)>>,
      <<SamplerDeclStmnt(<<SamplerDecl("dead_s", FALSE, <<>>)>>)>>,
      <<FunctionDecl(FALSE, <<Attribute("NumThreads", <<L1, L1, L1>>)>>, <<>>, NoSemantic)>> }

IsEntryPoint(stmnt) == stmnt.type = "FunctionDecl" /\ stmnt.isEntryPoint

\* Program::entryPointRef as an index into globalStmnts, 0 for a null pointer
EntryPointRefOf(stmnts) ==
    IF \E i \in 1..Len(stmnts) : IsEntryPoint(stmnts[i])
    THEN CHOOSE i \in 1..Len(stmnts) : IsEntryPoint(stmnts[i])
    ELSE 0

Program(stmnts, disabled) ==
    [globalStmnts |-> stmnts, disabledAST |-> disabled, entryPointRef |-> EntryPointRefOf(stmnts)]

Programs ==
    { Program(<<s>>, <<>>) : s \in Stmnts }
    \cup { Program(stmnts, disabled) :
             stmnts \in { l \in SeqsUpTo(MixedStmnts, MaxStmnts) :
                            Cardinality({ i \in 1..Len(l) : IsEntryPoint(l[i]) }) <= 1 },
             disabled \in DisabledLists }

(* ------------------------------ traversal ----------------------------- *)

This == [shaderTarget_ |-> shaderTarget_, enableWarnings_ |-> enableWarnings_]

\* the position of the traversal that follows the statement at <<list, i>>
PosAfter(prog, list, i) ==
    IF list = "globalStmnts" /\ i < Len(prog.globalStmnts) THEN <<"globalStmnts", i + 1>>
    ELSE IF list = "globalStmnts" /\ prog.disabledAST # <<>> THEN <<"disabledAST", 1>>
    ELSE IF list = "disabledAST" /\ i < Len(prog.disabledAST) THEN <<"disabledAST", i + 1>>
    ELSE <<"entryPoint", 0>>

FirstPos(prog) ==
    IF prog.globalStmnts # <<>> THEN <<"globalStmnts", 1>>
    ELSE PosAfter(prog, "globalStmnts", 0)

Visiting == pc \in {"globalStmnts", "disabledAST"}

Current == IF pc = "globalStmnts" THEN program.globalStmnts[cursor]
           ELSE program.disabledAST[cursor]

Init ==
    /\ program \in Programs
    /\ shaderTarget_ = "VertexShader"
    /\ enableWarnings_ = FALSE
    /\ data = DefaultReflectionData
    /\ log = <<>>
    /\ pc = "idle"
    /\ cursor = 0
    /\ runs = 0
    /\ prev = [data |-> DefaultReflectionData, log |-> <<>>, shaderTarget_ |-> "VertexShader"]

\* ReflectionAnalyzer::Reflect up to the call of Visit(program_)
Reflect(shaderTarget, enableWarnings) ==
    /\ pc = "idle"
    /\ runs < MaxRuns
    /\ shaderTarget_' = shaderTarget
    /\ enableWarnings_' = enableWarnings
    /\ prev' = [data |-> data, log |-> log, shaderTarget_ |-> shaderTarget_]
    /\ runs' = runs + 1
    /\ pc' = FirstPos(program)[1]
    /\ cursor' = FirstPos(program)[2]
    /\ UNCHANGED <<program, data, log>>

\* what a visit leaves: the report, the sink and where the traversal goes on;
\* an exception that leaves the visit leaves Reflect
Visited(d) ==
    /\ data' = d.data
    /\ log' = d.log
    /\ IF d.thrown # "none"
       THEN pc' = "terminated" /\ cursor' = 0
       ELSE pc' = PosAfter(program, pc, cursor)[1] /\ cursor' = PosAfter(program, pc, cursor)[2]
    /\ UNCHANGED <<program, shaderTarget_, enableWarnings_, runs, prev>>

Visitee == [data |-> data, log |-> log, thrown |-> "none"]

OnUniformBufferDecl ==
    /\ Visiting
    /\ Current.type = "UniformBufferDecl"
    /\ Visited(VisitUniformBufferDecl(This, Current, Visitee))

OnBufferDeclStmnt ==
    /\ Visiting
    /\ Current.type = "BufferDeclStmnt"
    /\ Visited(VisitBufferDeclStmnt(This, Current, Visitee))

OnSamplerDeclStmnt ==
    /\ Visiting
    /\ Current.type = "SamplerDeclStmnt"
    /\ Visited(VisitSamplerDeclStmnt(This, Current, Visitee))

OnFunctionDecl ==
    /\ Visiting
    /\ Current.type = "FunctionDecl"
    /\ Visited(VisitFunctionDecl(This, Current, Visitee))

\* VisitProgram after the two Visit calls, and the return of Reflect
OnEntryPoint ==
    /\ pc = "entryPoint"
    /\ data' = IF program.entryPointRef # 0
               THEN ReflectEntryPoint(program.globalStmnts[program.entryPointRef], data)
               ELSE data
    /\ pc' = "idle"
    /\ UNCHANGED <<program, shaderTarget_, enableWarnings_, log, cursor, runs, prev>>

Next ==
    \/ \E t \in ShaderTargets, w \in BOOLEAN : Reflect(t, w)
    \/ OnUniformBufferDecl
    \/ OnBufferDeclStmnt
    \/ OnSamplerDeclStmnt
    \/ OnFunctionDecl
    \/ OnEntryPoint

Spec == Init /\ [][Next]_vars

\* ReflectionAnalyzer::VisitProgram as one call: the statements of
\* globalStmnts, those of disabledAST, then the entry point
RECURSIVE VisitStmnts(_, _, _)
VisitStmnts(self, stmnts, d) ==
    IF stmnts = <<>> \/ d.thrown # "none" THEN d
    ELSE VisitStmnts(self, Tail(stmnts), VisitStmnt(self, Head(stmnts), d))

VisitProgram(self, ast, d) ==
    LET v == VisitStmnts(self, ast.disabledAST, VisitStmnts(self, ast.globalStmnts, d)) IN
    IF v.thrown # "none" \/ ast.entryPointRef = 0 THEN v
    ELSE [v EXCEPT !.data = ReflectEntryPoint(ast.globalStmnts[ast.entryPointRef], @)]

(* ====================================================================== *)
(*                              properties                                *)
(* ====================================================================== *)

\* Reflect has returned
Returned == pc = "idle" /\ runs >= 1

Idents(bindings) == [i \in 1..Len(bindings) |-> bindings[i].ident]

\* what this call of Reflect has appended to a sequence of the report
Appended(now, before) == SubSeq(now, Len(before) + 1, Len(now))

Range(f) == { f[i] : i \in DOMAIN f }

UniformBufferDeclsOf(prog) ==
    { s \in Range(prog.globalStmnts \o prog.disabledAST) : s.type = "UniformBufferDecl" }

BufferDeclStmntsOf(prog) ==
    { s \in Range(prog.globalStmnts \o prog.disabledAST) : s.type = "BufferDeclStmnt" }

BufferDeclsOf(prog) == UNION { Range(s.bufferDecls) : s \in BufferDeclStmntsOf(prog) }

SamplerDeclsOf(prog) ==
    UNION { Range(s.samplerDecls) :
              s \in { t \in Range(prog.globalStmnts \o prog.disabledAST) :
                        t.type = "SamplerDeclStmnt" } }

\* the names of the declarations whose reachability flag is false
UnreachableBufferNames(prog) ==
    { b.ident : b \in { x \in UniformBufferDeclsOf(prog) \cup BufferDeclsOf(prog) :
                          ~x.isReachable } }

UnreachableSamplerNames(prog) ==
    { b.ident : b \in { x \in SamplerDeclsOf(prog) : ~x.isReachable } }

(* C1: after Reflect returns, no declaration whose reachability flag is
   false has its name in constantBuffers, textures, storageBuffers or among
   the keys of samplerStates. *)
C1_UnreachableNeverReflected ==
    Returned =>
        /\ \A n \in UnreachableBufferNames(program) :
              n \notin Range(Idents(data.constantBuffers \o data.textures \o data.storageBuffers))
        /\ \A n \in UnreachableSamplerNames(program) : n \notin DOMAIN data.samplerStates

(* C4: Reflect run twice on the same tree with the same target and the same
   report object leaves the report as it was after the first run. *)
C4_Idempotent ==
    (Returned /\ runs >= 2 /\ prev.shaderTarget_ = shaderTarget_) => data = prev.data

(* ------------------------------- C7 ----------------------------------- *)

\* the slot of the first register of the list given for the target, -1 if
\* the list has none
ExpectedSlot(regs, target) ==
    LET matching == { i \in 1..Len(regs) : regs[i].shaderTarget = target } IN
    IF matching = {} THEN -1
    ELSE regs[CHOOSE i \in matching : \A j \in matching : i <= j].slot

SlotsAreOwn(bindings, decls) ==
    \A i \in 1..Len(bindings) :
        \E decl \in decls :
            /\ decl.ident = bindings[i].ident
            /\ decl.isReachable
            /\ bindings[i].location = ExpectedSlot(decl.slotRegisters, shaderTarget_)
            /\ (bindings[i].location = -1) <=>
                   (\A k \in 1..Len(decl.slotRegisters) :
                        decl.slotRegisters[k].shaderTarget # shaderTarget_)

(* C7: every constant buffer, texture and storage buffer this call of
   Reflect has reflected carries the slot of the register that its own
   declaration gives for the active target, and -1 exactly when its
   declaration gives none for that target. *)
C7_BindingSlotOfOwnRegister ==
    /\ SlotsAreOwn(Appended(data.constantBuffers, prev.data.constantBuffers),
                   UniformBufferDeclsOf(program))
    /\ SlotsAreOwn(Appended(data.textures, prev.data.textures), BufferDeclsOf(program))
    /\ SlotsAreOwn(Appended(data.storageBuffers, prev.data.storageBuffers),
                   BufferDeclsOf(program))

\* a constant buffer reflected for the compute target from a declaration
\* that also gives a register, with another slot, for the vertex target,
\* next to a texture whose declaration gives no register for the target
C7_Witness ==
    /\ Returned
    /\ shaderTarget_ = "ComputeShader"
    /\ \E i \in 1..Len(data.constantBuffers) :
          /\ data.constantBuffers[i].location = MaxSlot
          /\ \E decl \in UniformBufferDeclsOf(program) :
                /\ decl.ident = data.constantBuffers[i].ident
                /\ Len(decl.slotRegisters) = 2
                /\ decl.slotRegisters[1] = Reg("VertexShader", 0)
    /\ \E i \in 1..Len(data.textures) : data.textures[i].location = -1

(* ------------------------------- C10 ---------------------------------- *)

ReachableIdents(decls) ==
    LET Reachable(b) == b.isReachable IN Idents(SelectSeq(decls, Reachable))

(* C10: the visit of a buffer declaration group appends the reachable
   members of a reachable group, in member order, to textures if the
   group's buffer type is a texture kind and to storageBuffers otherwise,
   appends nothing for an unreachable group or member, and leaves
   constantBuffers unchanged. *)
C10_BufferDeclStmntClassified ==
    [][ (Visiting /\ Current.type = "BufferDeclStmnt") =>
          LET new == IF Current.isReachable THEN ReachableIdents(Current.bufferDecls) ELSE <<>>
              tex == Current.bufferType \in {"Texture2D", "RWTexture2D"}
          IN
          /\ Len(data'.textures) >= Len(data.textures)
          /\ Len(data'.storageBuffers) >= Len(data.storageBuffers)
          /\ SubSeq(data'.textures, 1, Len(data.textures)) = data.textures
          /\ SubSeq(data'.storageBuffers, 1, Len(data.storageBuffers)) = data.storageBuffers
          /\ Idents(Appended(data'.textures, data.textures)) = (IF tex THEN new ELSE <<>>)
          /\ Idents(Appended(data'.storageBuffers, data.storageBuffers)) =
                 (IF tex THEN <<>> ELSE new)
          /\ data'.constantBuffers = data.constantBuffers
          /\ data'.samplerStates = data.samplerStates
      ]_vars

\* a texture group with a reachable, an unreachable and another reachable
\* member has been visited after a constant buffer was reflected
C10_Witness ==
    /\ Returned
    /\ Idents(data.textures) = <<"t0", "t2">>
    /\ data.storageBuffers = <<>>
    /\ Len(data.constantBuffers) = 1

(* ------------------------------- C3 ----------------------------------- *)

EntryPoint == program.globalStmnts[program.entryPointRef]

\* the name an attribute carries for a parameter
AttributeOf(p) ==
    [ident |-> IF p.semantic.isSystemValue THEN p.semantic.name ELSE p.ident,
     index |-> p.semantic.index]

AttributesOf(ps) == [i \in 1..Len(ps) |-> AttributeOf(ps[i])]

\* the parameters of one direction, in the order of their declarations
Declared(isOutput) ==
    LET Dir(p) == p.isOutput = isOutput IN SelectSeq(EntryPoint.parameters, Dir)

OrdinaryOnes(ps) == LET Ord(p) == ~p.semantic.isSystemValue IN SelectSeq(ps, Ord)
SystemValueOnes(ps) == LET SV(p) == p.semantic.isSystemValue IN SelectSeq(ps, SV)

ReturnAttribute ==
    IF EntryPoint.semantic.isSystemValue
    THEN <<[ident |-> EntryPoint.semantic.name, index |-> EntryPoint.semantic.index]>>
    ELSE <<>>

(* C3 as claimed: the entries Reflect appends to inputAttributes, and to
   outputAttributes, are in the order in which the parameters are declared. *)
C3_DeclarationOrder ==
    (Returned /\ program.entryPointRef # 0) =>
        /\ Appended(data.inputAttributes, prev.data.inputAttributes)
              = AttributesOf(Declared(FALSE))
        /\ SubSeq(Appended(data.outputAttributes, prev.data.outputAttributes),
                  1, Len(Declared(TRUE)))
              = AttributesOf(Declared(TRUE))

(* C3 as amended: Reflect appends the ordinary parameters in the order of
   their declarations and after them the system-value parameters in the
   order of their declarations; for outputAttributes the entry point's own
   system-value semantic follows. *)
C3_OrdinaryThenSystemValue ==
    (Returned /\ program.entryPointRef # 0) =>
        /\ Appended(data.inputAttributes, prev.data.inputAttributes)
              = AttributesOf(OrdinaryOnes(Declared(FALSE)))
                  \o AttributesOf(SystemValueOnes(Declared(FALSE)))
        /\ Appended(data.outputAttributes, prev.data.outputAttributes)
              = AttributesOf(OrdinaryOnes(Declared(TRUE)))
                  \o AttributesOf(SystemValueOnes(Declared(TRUE)))
                  \o ReturnAttribute

\* an entry point whose first parameter is a system value and whose second
\* is an ordinary input has been reflected: the ordinary one comes first
C3_Witness ==
    /\ Returned
    /\ program.entryPointRef # 0
    /\ Len(EntryPoint.parameters) >= 2
    /\ EntryPoint.parameters[1].ident = "b"
    /\ EntryPoint.parameters[2].ident = "a"
    /\ Idents(Appended(data.inputAttributes, prev.data.inputAttributes))
          = <<"a", "SV_VertexID">>

(* ------------------------------- C5 ----------------------------------- *)

\* the thread-group-size attributes with three arguments of the entry point
ApplicableNumThreads(prog) ==
    IF prog.entryPointRef = 0 THEN <<>>
    ELSE LET Applies(a) == a.attributeType = "NumThreads" /\ Len(a.arguments) = 3
         IN SelectSeq(prog.globalStmnts[prog.entryPointRef].attribs, Applies)

HasSamplers(prog) == SamplerDeclsOf(prog) # {}

(* C5: Reflect changes numThreads only for the compute target and an entry
   point that carries a thread-group-size attribute with exactly three
   arguments, and then to the integer folds of its arguments in order (of
   the last such attribute); otherwise numThreads stays as it was, {0,0,0}
   in a fresh report, and the attributes cause no warning. *)
C5_NumThreads ==
    /\ Returned =>
          LET as == ApplicableNumThreads(program) IN
          IF shaderTarget_ = "ComputeShader" /\ as # <<>>
          THEN LET a == as[Len(as)] IN
               data.numThreads = [x |-> EvaluateConstExprInt(a.arguments[1]).value,
                                  y |-> EvaluateConstExprInt(a.arguments[2]).value,
                                  z |-> EvaluateConstExprInt(a.arguments[3]).value]
          ELSE /\ data.numThreads = prev.data.numThreads
               /\ runs = 1 => data.numThreads = [x |-> 0, y |-> 0, z |-> 0]
    /\ ~HasSamplers(program) => log = <<>>

\* numthreads(8, 8, 1) reflected for the compute target, and then left as
\* it is by a second call for the vertex target
C5_Witness ==
    /\ Returned
    /\ runs = 2
    /\ shaderTarget_ = "VertexShader"
    /\ prev.shaderTarget_ = "ComputeShader"
    /\ ApplicableNumThreads(program) # <<>>
    /\ data.numThreads = [x |-> 8, y |-> 8, z |-> 1]

(* --------------------------- C2, C6, C8 ------------------------------- *)

\* the program is one reachable sampler declaration with at least one assignment
SingleSampler ==
    /\ Len(program.globalStmnts) = 1
    /\ program.disabledAST = <<>>
    /\ program.globalStmnts[1].type = "SamplerDeclStmnt"
    /\ Len(program.globalStmnts[1].samplerDecls) = 1
    /\ program.globalStmnts[1].samplerDecls[1].isReachable
    /\ program.globalStmnts[1].samplerDecls[1].samplerValues # <<>>

TheSampler == program.globalStmnts[1].samplerDecls[1]

\* the last assignment of the sampler, and the sampler state and the
\* warnings of this sampler before it
LastValue == TheSampler.samplerValues[Len(TheSampler.samplerValues)]

Before ==
    ReflectSamplerValues(This,
        SubSeq(TheSampler.samplerValues, 1, Len(TheSampler.samplerValues) - 1),
        [samplerState |-> DefaultSamplerState, log |-> <<>>, thrown |-> "none"])

After == data.samplerStates[TheSampler.ident]

Emitted == Appended(log, prev.log)

OneIfEnabled == IF enableWarnings_ THEN 1 ELSE 0

Malformed(v) ==
    \/ v.type \notin {"CallExpr", "CastExpr", "InitializerExpr"}
    \/ v.type = "CallExpr" /\ (v.typeDenoter # "Vector" \/ Len(v.arguments) # 4)
    \/ v.type = "InitializerExpr" /\ Len(v.exprs) # 4

(* C2: a BorderColor value that is not a 4-argument vector constructor, a
   scalar cast or a 4-element initializer list makes ReflectSamplerValue
   emit exactly one warning (when warnings are enabled) and leaves the
   four components of borderColor as they were. *)
C2_MalformedBorderColorWarns ==
    (Returned /\ SingleSampler /\ LastValue.name = "BorderColor" /\ Malformed(LastValue.value)) =>
        /\ Len(Emitted) = Len(Before.log) + OneIfEnabled
        /\ TheSampler.ident \in DOMAIN data.samplerStates
        /\ After.borderColor = Before.samplerState.borderColor

EnumFields == {"Filter", "AddressU", "AddressV", "AddressW", "ComparisonFunc"}

FieldOf(name) ==
    CASE name = "Filter" -> "filter"
      [] name = "AddressU" -> "addressU"
      [] name = "AddressV" -> "addressV"
      [] name = "AddressW" -> "addressW"
      [] name = "ComparisonFunc" -> "comparisonFunc"

Converted(name, ident) ==
    CASE name = "Filter" -> StringToFilter(ident)
      [] name \in {"AddressU", "AddressV", "AddressW"} -> StringToTexAddressMode(ident)
      [] name = "ComparisonFunc" -> StringToCompareFunc(ident)

(* C6: an identifier assigned to Filter, AddressU, AddressV, AddressW or
   ComparisonFunc sets exactly that field to the mapped enum value if the
   table has the identifier; if not, one warning naming the identifier is
   emitted (when warnings are enabled), the field and every other field
   keep the values they had, and the sampler is stored all the same. *)
C6_EnumSamplerField ==
    (Returned /\ SingleSampler /\ LastValue.name \in EnumFields
        /\ LastValue.value.type = "ObjectExpr") =>
        LET conv == Converted(LastValue.name, LastValue.value.ident) IN
        /\ TheSampler.ident \in DOMAIN data.samplerStates
        /\ IF conv.thrown = "none"
           THEN /\ After = [Before.samplerState EXCEPT ![FieldOf(LastValue.name)] = conv.value]
                /\ Len(Emitted) = Len(Before.log)
           ELSE /\ After = Before.samplerState
                /\ Len(Emitted) = Len(Before.log) + OneIfEnabled
                /\ enableWarnings_ => Emitted[Len(Emitted)].what = LastValue.value.ident

\* Filter was set by a first assignment and then assigned an unknown
\* identifier: one warning, and the filter of the first assignment stays
C6_Witness ==
    /\ Returned
    /\ SingleSampler
    /\ enableWarnings_
    /\ Len(TheSampler.samplerValues) = 2
    /\ LastValue = SamplerValue("Filter", Obj("BOGUS"))
    /\ After.filter = "MinMagMipPoint"
    /\ Len(Emitted) = 1

\* evaluation reaches a variable access or the evaluator rejects the expression
NonConstant(expr) == EvaluateExpr(expr).thrown # "none"

Components(v) ==
    CASE v.type = "CallExpr" -> v.arguments
      [] v.type = "InitializerExpr" -> v.exprs
      [] v.type = "CastExpr" -> <<v.expr, v.expr, v.expr, v.expr>>
      [] OTHER -> <<>>

(* C8: no failure of constant folding leaves the reflection pass: Reflect
   is never left by an exception, and a numThreads argument or BorderColor
   component that is not constant is reflected as 0. *)
C8_FoldingNeverFails ==
    /\ pc # "terminated"
    /\ \A e \in {L0, L1, L8, LHalf, RuntimeVar, DivByZero, Minus1, OnePlusHalf} :
          /\ EvaluateConstExpr(e).thrown = "none"
          /\ NonConstant(e) =>
                /\ EvaluateConstExpr(e).value = VariantNone
                /\ EvaluateConstExprInt(e).value = 0
                /\ EvaluateConstExprFloat(e).value = 0
    /\ (Returned /\ shaderTarget_ = "ComputeShader" /\ ApplicableNumThreads(program) # <<>>) =>
          LET as == ApplicableNumThreads(program)
              a == as[Len(as)]
          IN /\ NonConstant(a.arguments[1]) => data.numThreads.x = 0
             /\ NonConstant(a.arguments[2]) => data.numThreads.y = 0
             /\ NonConstant(a.arguments[3]) => data.numThreads.z = 0
    /\ (Returned /\ SingleSampler /\ LastValue.name = "BorderColor"
          /\ LastValue.value.type \in {"CallExpr", "CastExpr", "InitializerExpr"}
          /\ ~Malformed(LastValue.value)) =>
          /\ TheSampler.ident \in DOMAIN data.samplerStates
          /\ \A i \in 1..4 :
                NonConstant(Components(LastValue.value)[i]) => After.borderColor[i] = 0

\* numthreads(1, x, 1/0) was reflected as {1, 0, 0}
C8_Witness ==
    /\ Returned
    /\ shaderTarget_ = "ComputeShader"
    /\ ApplicableNumThreads(program) = <<Attribute("NumThreads", <<L1, RuntimeVar, DivByZero>>)>>
    /\ data.numThreads = [x |-> 1, y |-> 0, z |-> 0]

(* ------------------------------- C9 ----------------------------------- *)

WithWarnings == [shaderTarget_ |-> shaderTarget_, enableWarnings_ |-> TRUE]

FromPrev == [data |-> prev.data, log |-> <<>>, thrown |-> "none"]

(* C9: while warnings are disabled no warning reaches the sink, and the
   report Reflect leaves is the one it leaves for the same tree, target and
   report with warnings enabled. *)
C9_WarningsSuppressed ==
    /\ ~enableWarnings_ => log = prev.log
    /\ (Returned /\ ~enableWarnings_) => data = VisitProgram(WithWarnings, program, FromPrev).data

\* Reflect has returned with warnings disabled for a tree that causes two
\* warnings when they are enabled
C9_Witness ==
    /\ Returned
    /\ ~enableWarnings_
    /\ log = <<>>
    /\ Len(VisitProgram(WithWarnings, program, FromPrev).log) = 2

====
